---- MODULE Spec2Model ----
(***************************************************************************)
(* Slow-fill path of the SVM spoke pool                                    *)
(* (programs/svm-spoke/src/instructions/slow_fill.rs).                     *)
(*                                                                         *)
(* Two instructions are modelled, each as one atomic transaction:          *)
(*   request_v3_slow_fill        (accounts: SlowFillV3Relay)               *)
(*   execute_v3_slow_relay_leaf  (accounts: ExecuteV3SlowRelayLeaf)        *)
(* An action covers the account validation generated from the #[account]   *)
(* attributes and the handler body.  A failed transaction leaves the       *)
(* accounts untouched; its error code is recorded in `last`.               *)
(***************************************************************************)
EXTENDS Integers, Sequences, FiniteSets, Bags, TLC

(***************************************************************************)
(* Bounds of the model.                                                    *)
(***************************************************************************)
MaxTime == 2        \* unix times range over 0..MaxTime
MaxAmount == 2      \* token amounts of a leaf range over 1..MaxAmount
MaxProofLen == 1    \* Merkle proofs carry at most MaxProofLen siblings
MaxMessageLen == 2  \* messages of the leaves encoded on their own carry at most MaxMessageLen bytes

(***************************************************************************)
(* Public keys are numbers; Pubkey::to_bytes is their 32-byte encoding.    *)
(***************************************************************************)
Signers == {1, 2}
Recipients == {11, 12}
Mints == {21, 22}
DefaultPubkey == 0

ChainId == 7          \* state.chain_id of the executing chain
ForgedChainId == 9    \* a chain id a caller may put in the leaf instead

BundleIds == {0, 1}
Amounts == 1..MaxAmount
Times == 0..MaxTime

\* n.to_le_bytes() for an unsigned integer of w bytes
RECURSIVE to_le_bytes(_, _)
to_le_bytes(n, w) ==
    IF w = 0 THEN <<>> ELSE <<n % 256>> \o to_le_bytes(n \div 256, w - 1)

\* Pubkey::to_bytes
pubkey_to_bytes(k) == to_le_bytes(k, 32)

(***************************************************************************)
(* V3RelayData values used as inputs.  The two deposits differ in          *)
(* recipient, deadlines and message; deposit 1 has its exclusivity         *)
(* deadline after its fill deadline, deposit 2 the other way round.        *)
(***************************************************************************)
DepositIds == {1, 2}

RelayDataOf(d) ==
    [depositor |-> 31,
     recipient |-> 10 + d,
     exclusive_relayer |-> 32,
     input_token |-> 23,
     output_token |-> 21,
     input_amount |-> MaxAmount,
     output_amount |-> MaxAmount,
     origin_chain_id |-> 1,
     deposit_id |-> d,
     fill_deadline |-> IF d = 1 THEN 0 ELSE 1,
     exclusivity_deadline |-> IF d = 1 THEN 1 ELSE 0,
     message |-> [i \in 1..d |-> ChainId]]

RelayDatas == {RelayDataOf(d) : d \in DepositIds}

RelayDataBytes(rd) ==
    pubkey_to_bytes(rd.depositor)
       \o pubkey_to_bytes(rd.recipient)
       \o pubkey_to_bytes(rd.exclusive_relayer)
       \o pubkey_to_bytes(rd.input_token)
       \o pubkey_to_bytes(rd.output_token)
       \o to_le_bytes(rd.input_amount, 8)
       \o to_le_bytes(rd.output_amount, 8)
       \o to_le_bytes(rd.origin_chain_id, 8)
       \o to_le_bytes(rd.deposit_id, 8)
       \o to_le_bytes(rd.fill_deadline, 4)
       \o to_le_bytes(rd.exclusivity_deadline, 4)
       \o rd.message

\* the bytes as they would be with the recipient written in the place of the
\* depositor as well
to_bytes_RecipientTwice(leaf) ==
    pubkey_to_bytes(leaf.relay_data.recipient)
       \o SubSeq(RelayDataBytes(leaf.relay_data), 33, Len(RelayDataBytes(leaf.relay_data)))
       \o to_le_bytes(leaf.chain_id, 8)
       \o to_le_bytes(leaf.updated_output_amount, 8)

\* V3SlowFill::to_bytes
to_bytes(leaf) ==
    RelayDataBytes(leaf.relay_data)
       \o to_le_bytes(leaf.chain_id, 8)
       \o to_le_bytes(leaf.updated_output_amount, 8)

V3SlowFill(rd, c, amt) ==
    [relay_data |-> rd, chain_id |-> c, updated_output_amount |-> amt]

\* the relay data and chain id a relay hash is computed from
RelayHashBytes(rd, chain_id) == RelayDataBytes(rd) \o to_le_bytes(chain_id, 8)

(***************************************************************************)
(* keccak is a collision-free digest: the digest of a byte string is its   *)
(* number in the list of the byte strings hashed, so two strings have the  *)
(* same digest exactly when they are the same string.                      *)
(***************************************************************************)
HashedBytes ==
    {to_bytes(V3SlowFill(rd, c, amt)) :
        rd \in RelayDatas, c \in {ChainId, ForgedChainId}, amt \in Amounts}
    \cup {RelayHashBytes(rd, ChainId) : rd \in RelayDatas}

RECURSIVE Enumerate(_)
Enumerate(S) ==
    IF S = {} THEN <<>>
    ELSE LET x == CHOOSE y \in S : TRUE IN <<x>> \o Enumerate(S \ {x})

Preimages == Enumerate(HashedBytes)

PreimageNumber ==
    [bytes \in HashedBytes |-> CHOOSE i \in 1..Len(Preimages) : Preimages[i] = bytes]

\* keccak::hash
Keccak(bytes) == <<"hash", PreimageNumber[bytes]>>

\* keccak::hashv of two digests taken in sorted order
HashPair(a, b) == <<"hashv", {a, b}>>

\* V3SlowFill::to_keccak_hash
to_keccak_hash(leaf) == Keccak(to_bytes(leaf))

\* the relay hash of a V3RelayData on the chain chain_id
compute_relay_hash(rd, chain_id) ==
    Keccak(RelayHashBytes(rd, chain_id))

\* compute_relay_hash, tabulated
RelayHashOf == [rd \in RelayDatas, c \in {ChainId} |-> compute_relay_hash(rd, c)]

\* constraints::is_relay_hash_valid
is_relay_hash_valid(relay_hash, relay_data, st) ==
    relay_hash = RelayHashOf[relay_data, st.chain_id]

\* to_keccak_hash, tabulated over the leaves a caller can submit
LeafHash ==
    [leaf \in {V3SlowFill(rd, c, amt) :
                  rd \in RelayDatas, c \in {ChainId, ForgedChainId}, amt \in Amounts}
        |-> to_keccak_hash(leaf)]

RECURSIVE ProcessProof(_, _)
ProcessProof(computed, proof) ==
    IF proof = <<>> THEN computed
    ELSE ProcessProof(HashPair(computed, Head(proof)), Tail(proof))

\* utils::verify_merkle_proof: TRUE when the proof leads from leaf to root
verify_merkle_proof(root, leaf, proof) == ProcessProof(leaf, proof) = root

RelayHashes == {RelayHashOf[rd, ChainId] : rd \in RelayDatas}

(***************************************************************************)
(* Leaves committed to the published root bundles, and the proofs callers  *)
(* may submit.                                                             *)
(***************************************************************************)
LeafA == V3SlowFill(RelayDataOf(1), ChainId, 1)
LeafB == V3SlowFill(RelayDataOf(2), ChainId, MaxAmount)
ForgedLeafA == V3SlowFill(RelayDataOf(1), ForgedChainId, 1)

\* root of the tree over the leaves as the executing chain hashes them
RootCorrected == HashPair(LeafHash[LeafA], LeafHash[LeafB])
\* root of a single-leaf tree that commits to the leaf of deposit 1 under the
\* forged chain id
RootForged == LeafHash[ForgedLeafA]

\* the slow_relay_root published for each root bundle id
PublishedRoot(b) == IF b = 0 THEN RootCorrected ELSE RootForged

Siblings == {LeafHash[LeafA], LeafHash[LeafB]}

RECURSIVE SeqsUpTo(_, _)
SeqsUpTo(S, n) ==
    IF n = 0 THEN {<<>>}
    ELSE LET shorter == SeqsUpTo(S, n - 1)
         IN shorter \cup {Append(p, x) : p \in shorter, x \in S}

Proofs == SeqsUpTo(Siblings, MaxProofLen)

VARIABLES
    state,                    \* the State account: chain_id, current_time, paused_fills
    fill_status,              \* the FillStatusAccount at seeds ["fills", relay_hash]
    root_bundle,              \* slow_relay_root of the RootBundle account of each id
    vault,                    \* balance of the state-owned vault token account, per mint
    recipient_token_account,  \* balance of the associated token account of <<recipient, mint>>
    events,                   \* the bag of the records emitted by emit_cpi!
    last                      \* the instruction just processed and its result

vars == <<state, fill_status, root_bundle, vault, recipient_token_account, events, last>>

accounts == <<state, fill_status, root_bundle, vault, recipient_token_account, events>>

\* an account that was never created
NoAccount == [exists |-> FALSE, status |-> "Unfilled", relayer |-> DefaultPubkey]

NoArgs ==
    [signer |-> DefaultPubkey, relay_hash |-> <<>>, relay_data |-> <<>>, clock |-> 0,
     chain_id |-> 0, updated_output_amount |-> 0, root_bundle_id |-> 0, proof |-> <<>>,
     recipient |-> DefaultPubkey, mint |-> DefaultPubkey]

NoCall == [op |-> "none", err |-> "Ok", args |-> NoArgs]

Init ==
    /\ state = [chain_id |-> ChainId, current_time |-> 0, paused_fills |-> FALSE]
    /\ fill_status = [h \in RelayHashes |-> NoAccount]
    /\ root_bundle = [b \in BundleIds |-> PublishedRoot(b)]
    /\ \E v \in {MaxAmount, MaxAmount + 1} : vault = [m \in Mints |-> v]
    /\ recipient_token_account = [a \in Recipients \X Mints |-> 0]
    /\ events = EmptyBag
    /\ last = NoCall

(***************************************************************************)
(* request_v3_slow_fill                                                    *)
(*                                                                         *)
(* Account validation runs first: the init_if_needed account fill_status   *)
(* with its relay hash constraint, then the constraint of state.  The      *)
(* handler body follows.                                                   *)
(***************************************************************************)

\* init_if_needed: the fill status account as the handler sees it
InitIfNeeded(acct) ==
    IF acct.exists THEN acct
    ELSE [exists |-> TRUE, status |-> "Unfilled", relayer |-> DefaultPubkey]

\* the time as it would be if the override were never consulted
CurrentTime_ClockOnly(st, clock) == clock

\* the time the deadline checks use; clock is Clock::get()?.unix_timestamp,
\* drawn from Times, a range on which the cast `as u32` keeps the value
CurrentTime(st, clock) ==
    IF st.current_time # 0 THEN st.current_time ELSE clock

\* the check as it would be with <= in place of <
ExclusivityLapsed_OrEqual(relay_data, current_time) ==
    relay_data.exclusivity_deadline <= current_time

\* require!(relay_data.exclusivity_deadline < current_time, ...)
ExclusivityLapsed(relay_data, current_time) ==
    relay_data.exclusivity_deadline < current_time

\* the check as it would be with <= in place of <
FillDeadlinePassed_OrEqual(relay_data, current_time) ==
    relay_data.fill_deadline <= current_time

\* require!(relay_data.fill_deadline < current_time, ...)
FillDeadlinePassed(relay_data, current_time) ==
    relay_data.fill_deadline < current_time

\* the status check as it would be if it were left out
StatusAllowsRequest_Any(acct) == TRUE

\* the status check as it would be if it only refused Filled records
StatusAllowsRequest_NotFilled(acct) == acct.status # "Filled"

\* require!(fill_status_account.status == FillStatus::Unfilled, ...)
StatusAllowsRequest(acct) == acct.status = "Unfilled"

\* the record as it would be with depositor and recipient mixed up
RequestedV3SlowFill_Swapped(rd) ==
    [name |-> "RequestedV3SlowFill",
     input_token |-> rd.input_token,
     output_token |-> rd.output_token,
     input_amount |-> rd.input_amount,
     output_amount |-> rd.output_amount,
     origin_chain_id |-> rd.origin_chain_id,
     deposit_id |-> rd.deposit_id,
     fill_deadline |-> rd.fill_deadline,
     exclusivity_deadline |-> rd.exclusivity_deadline,
     exclusive_relayer |-> rd.exclusive_relayer,
     depositor |-> rd.recipient,
     recipient |-> rd.depositor,
     message |-> rd.message]

RequestedV3SlowFill(rd) ==
    [name |-> "RequestedV3SlowFill",
     input_token |-> rd.input_token,
     output_token |-> rd.output_token,
     input_amount |-> rd.input_amount,
     output_amount |-> rd.output_amount,
     origin_chain_id |-> rd.origin_chain_id,
     deposit_id |-> rd.deposit_id,
     fill_deadline |-> rd.fill_deadline,
     exclusivity_deadline |-> rd.exclusivity_deadline,
     exclusive_relayer |-> rd.exclusive_relayer,
     depositor |-> rd.depositor,
     recipient |-> rd.recipient,
     message |-> rd.message]

\* the constraint as it would be if it were left out of fill_status
fill_status_constraint_Missing(a, st) == TRUE

\* SlowFillV3Relay.fill_status:
\* constraint = is_relay_hash_valid(&relay_hash, &relay_data, &state)
fill_status_constraint(a, st) ==
    is_relay_hash_valid(a.relay_hash, a.relay_data, st)

\* the constraint as it would be if it were left out of state
state_constraint_Missing(st) == TRUE

\* SlowFillV3Relay.state: constraint = !state.paused_fills
state_constraint(st) == ~st.paused_fills

\* the error of a request, or "Ok"
RequestError(a) ==
    LET acct == InitIfNeeded(fill_status[a.relay_hash])
        current_time == CurrentTime(state, a.clock)
    IN  IF ~fill_status_constraint(a, state)
          THEN "InvalidRelayHash"
        ELSE IF ~state_constraint(state)
          THEN "FillsArePaused"
        ELSE IF ~ExclusivityLapsed(a.relay_data, current_time)
          THEN "NoSlowFillsInExclusivityWindow"
        ELSE IF ~FillDeadlinePassed(a.relay_data, current_time)
          THEN "ExpiredFillDeadline"
        ELSE IF ~StatusAllowsRequest(acct)
          THEN "InvalidSlowFillRequest"
        ELSE "Ok"

\* the accounts as they would be if a failed request kept the account it created
FillStatusAfterRequest_KeepsCreated(a, err) ==
    IF err = "Ok"
      THEN [fill_status EXCEPT ![a.relay_hash] =
                [exists |-> TRUE, status |-> "RequestedSlowFill", relayer |-> a.signer]]
      ELSE [fill_status EXCEPT ![a.relay_hash] = InitIfNeeded(@)]

\* the accounts as they would be if the request left the relayer unstamped
FillStatusAfterRequest_NoRelayer(a, err) ==
    IF err = "Ok"
      THEN [fill_status EXCEPT ![a.relay_hash] =
                [exists |-> TRUE, status |-> "RequestedSlowFill", relayer |-> DefaultPubkey]]
      ELSE fill_status

\* the fill status accounts after a request that ended with err: a failed
\* transaction is rolled back, the account init_if_needed created included
FillStatusAfterRequest(a, err) ==
    IF err = "Ok"
      THEN [fill_status EXCEPT ![a.relay_hash] =
                [exists |-> TRUE, status |-> "RequestedSlowFill", relayer |-> a.signer]]
      ELSE fill_status

request_v3_slow_fill(a) ==
    LET err == RequestError(a)
    IN  /\ last = NoCall
        /\ last' = [op |-> "request", err |-> err, args |-> a]
        /\ fill_status' = FillStatusAfterRequest(a, err)
        /\ events' = IF err = "Ok"
                       THEN events (+) SetToBag({RequestedV3SlowFill(a.relay_data)})
                       ELSE events
        /\ UNCHANGED <<state, root_bundle, vault, recipient_token_account>>

RequestArgs ==
    {[NoArgs EXCEPT !.signer = s, !.relay_hash = h, !.relay_data = rd, !.clock = c] :
        s \in Signers, h \in RelayHashes, rd \in RelayDatas, c \in Times \ {0}}

(***************************************************************************)
(* execute_v3_slow_relay_leaf                                              *)
(*                                                                         *)
(* Account validation runs first: every account is loaded (fill_status is  *)
(* not init_if_needed here, so it must exist), then the constraints are    *)
(* checked in the order of the fields.  The handler body follows.          *)
(***************************************************************************)

\* loading the fill_status account as it would be if it were init_if_needed
AccountLoads_InitIfNeeded(acct) == TRUE

\* fill_status is declared `mut` with seeds only: loading it fails unless the
\* account was created before
AccountLoads(acct) == acct.exists

\* the leaf as it would be hashed if the caller's chain id were kept
SlowFillToHash_CallerChainId(a, st) ==
    V3SlowFill(a.relay_data, a.chain_id, a.updated_output_amount)

\* the leaf the handler hashes: the chain id is state.chain_id
SlowFillToHash(a, st) ==
    V3SlowFill(a.relay_data, st.chain_id, a.updated_output_amount)

\* the root as it would be if the bundle id were left out of the seeds
RootOf_FirstBundle(a) == root_bundle[0]

\* the root the proof is verified against: the root_bundle account at seeds
\* ["root_bundle", state, root_bundle_id]
RootOf(a) == root_bundle[a.root_bundle_id]

\* the status check as it would be if it only refused records still Unfilled
StatusAllowsExecution_NotUnfilled(acct) == acct.status # "Unfilled"

\* require!(fill_status_account.status == FillStatus::RequestedSlowFill, ...)
StatusAllowsExecution(acct) == acct.status = "RequestedSlowFill"

\* the amount as it would be if the relay data's output amount were sent
TransferAmount_OutputAmount(a) == a.relay_data.output_amount

\* the amount handed to transfer_checked
TransferAmount(a) == a.updated_output_amount

\* transfer_checked from the vault: fails when the vault holds too little
TransferError(a) ==
    IF vault[a.mint] < TransferAmount(a) THEN "InsufficientFunds" ELSE "Ok"

\* the record as it would be if it carried the relayer stored in the fill
\* record in place of the signer
FilledV3Relay_StoredRelayer(rd, signer, amt) ==
    [name |-> "FilledV3Relay",
     input_token |-> rd.input_token,
     output_token |-> rd.output_token,
     input_amount |-> rd.input_amount,
     output_amount |-> rd.output_amount,
     repayment_chain_id |-> 0,
     origin_chain_id |-> rd.origin_chain_id,
     deposit_id |-> rd.deposit_id,
     fill_deadline |-> rd.fill_deadline,
     exclusivity_deadline |-> rd.exclusivity_deadline,
     exclusive_relayer |-> rd.exclusive_relayer,
     relayer |-> fill_status[RelayHashOf[rd, state.chain_id]].relayer,
     depositor |-> rd.depositor,
     recipient |-> rd.recipient,
     message |-> rd.message,
     relay_execution_info |->
        [updated_recipient |-> rd.recipient,
         updated_message |-> rd.message,
         updated_output_amount |-> amt,
         fill_type |-> "SlowFill"]]

\* FilledV3Relay { ..., relayer: *ctx.accounts.signer.key, ... }
FilledV3Relay(rd, signer, amt) ==
    [name |-> "FilledV3Relay",
     input_token |-> rd.input_token,
     output_token |-> rd.output_token,
     input_amount |-> rd.input_amount,
     output_amount |-> rd.output_amount,
     repayment_chain_id |-> 0,
     origin_chain_id |-> rd.origin_chain_id,
     deposit_id |-> rd.deposit_id,
     fill_deadline |-> rd.fill_deadline,
     exclusivity_deadline |-> rd.exclusivity_deadline,
     exclusive_relayer |-> rd.exclusive_relayer,
     relayer |-> signer,
     depositor |-> rd.depositor,
     recipient |-> rd.recipient,
     message |-> rd.message,
     relay_execution_info |->
        [updated_recipient |-> rd.recipient,
         updated_message |-> rd.message,
         updated_output_amount |-> amt,
         fill_type |-> "SlowFill"]]

\* the accounts as they would be if the execution stamped its signer as relayer
FillStatusAfterExecution_StampsSigner(a) ==
    [fill_status EXCEPT ![a.relay_hash] =
        [exists |-> TRUE, status |-> "Filled", relayer |-> a.signer]]

\* fill_status_account.status = FillStatus::Filled: the only field written
FillStatusAfterExecution(a) ==
    [fill_status EXCEPT ![a.relay_hash].status = "Filled"]

\* the error as it would be if the state account of ExecuteV3SlowRelayLeaf
\* carried the paused_fills constraint of SlowFillV3Relay
ExecuteError_GatedByPause(a) ==
    LET acct == fill_status[a.relay_hash]
        leaf == LeafHash[SlowFillToHash(a, state)]
    IN  IF ~AccountLoads(acct)
          THEN "AccountNotInitialized"
        ELSE IF state.paused_fills
          THEN "FillsArePaused"
        ELSE IF ~is_relay_hash_valid(a.relay_hash, a.relay_data, state)
          THEN "InvalidRelayHash"
        ELSE IF a.recipient # a.relay_data.recipient
          THEN "InvalidFillRecipient"
        ELSE IF a.mint # a.relay_data.output_token
          THEN "InvalidMint"
        ELSE IF ~verify_merkle_proof(RootOf(a), leaf, a.proof)
          THEN "InvalidMerkleProof"
        ELSE IF ~StatusAllowsExecution(acct)
          THEN "InvalidSlowFillRequest"
        ELSE TransferError(a)

\* the error as it would be if the handler checked the fill status before it
\* verified the proof
ExecuteError_StatusFirst(a) ==
    LET acct == fill_status[a.relay_hash]
        leaf == LeafHash[SlowFillToHash(a, state)]
    IN  IF ~AccountLoads(acct)
          THEN "AccountNotInitialized"
        ELSE IF ~is_relay_hash_valid(a.relay_hash, a.relay_data, state)
          THEN "InvalidRelayHash"
        ELSE IF a.recipient # a.relay_data.recipient
          THEN "InvalidFillRecipient"
        ELSE IF a.mint # a.relay_data.output_token
          THEN "InvalidMint"
        ELSE IF ~StatusAllowsExecution(acct)
          THEN "InvalidSlowFillRequest"
        ELSE IF ~verify_merkle_proof(RootOf(a), leaf, a.proof)
          THEN "InvalidMerkleProof"
        ELSE TransferError(a)

\* the error of an execution, or "Ok"
ExecuteError(a) ==
    LET acct == fill_status[a.relay_hash]
        leaf == LeafHash[SlowFillToHash(a, state)]
    IN  IF ~AccountLoads(acct)
          THEN "AccountNotInitialized"
        ELSE IF ~is_relay_hash_valid(a.relay_hash, a.relay_data, state)
          THEN "InvalidRelayHash"
        ELSE IF a.recipient # a.relay_data.recipient
          THEN "InvalidFillRecipient"
        ELSE IF a.mint # a.relay_data.output_token
          THEN "InvalidMint"
        ELSE IF ~verify_merkle_proof(RootOf(a), leaf, a.proof)
          THEN "InvalidMerkleProof"
        ELSE IF ~StatusAllowsExecution(acct)
          THEN "InvalidSlowFillRequest"
        ELSE TransferError(a)

execute_v3_slow_relay_leaf(a) ==
    LET err == ExecuteError(a)
        ata == <<a.recipient, a.mint>>
    IN  /\ last = NoCall
        /\ last' = [op |-> "execute", err |-> err, args |-> a]
        /\ IF err = "Ok"
             THEN /\ vault' = [vault EXCEPT ![a.mint] = @ - TransferAmount(a)]
                  /\ recipient_token_account' =
                        [recipient_token_account EXCEPT ![ata] = @ + TransferAmount(a)]
                  /\ fill_status' = FillStatusAfterExecution(a)
                  /\ events' = events (+) SetToBag(
                        {FilledV3Relay(a.relay_data, a.signer, a.updated_output_amount)})
             ELSE UNCHANGED <<vault, recipient_token_account, fill_status, events>>
        /\ UNCHANGED <<state, root_bundle>>

ExecuteArgs ==
    {[signer |-> s, relay_hash |-> h, relay_data |-> rd, clock |-> 0, chain_id |-> c,
      updated_output_amount |-> amt, root_bundle_id |-> b, proof |-> p,
      recipient |-> r, mint |-> m] :
        s \in Signers, h \in RelayHashes, rd \in RelayDatas, c \in {ChainId, ForgedChainId},
        amt \in Amounts, b \in BundleIds, p \in Proofs, r \in Recipients, m \in Mints}

(***************************************************************************)
(* The environment: the caller observes the result; the administrator      *)
(* sets the time override and the pause flag of State.                     *)
(***************************************************************************)
Return ==
    /\ last # NoCall
    /\ last' = NoCall
    /\ UNCHANGED accounts

set_current_time(t) ==
    /\ last = NoCall
    /\ state.current_time # t
    /\ state' = [state EXCEPT !.current_time = t]
    /\ UNCHANGED <<fill_status, root_bundle, vault, recipient_token_account, events, last>>

pause_fills(p) ==
    /\ last = NoCall
    /\ state.paused_fills # p
    /\ state' = [state EXCEPT !.paused_fills = p]
    /\ UNCHANGED <<fill_status, root_bundle, vault, recipient_token_account, events, last>>

Next ==
    \/ last = NoCall /\ \E a \in RequestArgs : request_v3_slow_fill(a)
    \/ last = NoCall /\ \E a \in ExecuteArgs : execute_v3_slow_relay_leaf(a)
    \/ Return
    \/ \E t \in Times : set_current_time(t)
    \/ \E p \in BOOLEAN : pause_fills(p)

Spec == Init /\ [][Next]_vars

(***************************************************************************)
(* Definitions the properties are stated with.                             *)
(***************************************************************************)

\* the V3RelayData an emitted record carries
RelayDataOfEvent(e) ==
    [depositor |-> e.depositor,
     recipient |-> e.recipient,
     exclusive_relayer |-> e.exclusive_relayer,
     input_token |-> e.input_token,
     output_token |-> e.output_token,
     input_amount |-> e.input_amount,
     output_amount |-> e.output_amount,
     origin_chain_id |-> e.origin_chain_id,
     deposit_id |-> e.deposit_id,
     fill_deadline |-> e.fill_deadline,
     exclusivity_deadline |-> e.exclusivity_deadline,
     message |-> e.message]

\* the emitted record e carries the relay data of relay hash h
EventBelongsTo(e, h) ==
    \E rd \in RelayDatas :
        rd = RelayDataOfEvent(e) /\ is_relay_hash_valid(h, rd, state)

\* the emitted records of one kind that belong to relay hash h, with their counts
EventsOf(kind, h, evts) ==
    [e \in {x \in BagToSet(evts) : x.name = kind /\ EventBelongsTo(x, h)}
        |-> CopiesIn(e, evts)]

\* the number of successful executions of relay hash h so far
ExecutionsOf(h) == BagCardinality(EventsOf("FilledV3Relay", h, events))

\* the number of successful requests of relay hash h so far
RequestsOf(h) == BagCardinality(EventsOf("RequestedV3SlowFill", h, events))

RECURSIVE SumOver(_, _)
SumOver(B, S) ==
    IF S = {} THEN 0
    ELSE LET e == CHOOSE x \in S : TRUE
         IN B[e] * e.relay_execution_info.updated_output_amount + SumOver(B, S \ {e})

\* the total amount the successful executions of relay hash h have disbursed
DisbursedFor(h) ==
    LET B == EventsOf("FilledV3Relay", h, events) IN SumOver(B, DOMAIN B)

\* the balance of every token account, summed
TotalHeldBy(balances) ==
    LET RECURSIVE Sum(_)
        Sum(S) == IF S = {} THEN 0
                  ELSE LET k == CHOOSE x \in S : TRUE IN balances[k] + Sum(S \ {k})
    IN Sum(DOMAIN balances)

\* the checks of an execution that come before the status check all pass
ExecutionInputsValid(a) ==
    /\ is_relay_hash_valid(a.relay_hash, a.relay_data, state)
    /\ a.recipient = a.relay_data.recipient
    /\ a.mint = a.relay_data.output_token
    /\ verify_merkle_proof(root_bundle[a.root_bundle_id],
            to_keccak_hash(V3SlowFill(a.relay_data, state.chain_id, a.updated_output_amount)),
            a.proof)

Executed == last'.op = "execute" /\ last # last'
Requested == last'.op = "request" /\ last # last'

C1_OneExecutionPerHash ==
    /\ \A h \in RelayHashes : ExecutionsOf(h) <= 1
    /\ TotalHeldBy(recipient_token_account) =
          TotalHeldBy([h \in RelayHashes |-> DisbursedFor(h)])

C1_SecondExecutionFails ==
    (Executed /\ fill_status[last'.args.relay_hash].status = "Filled")
       => /\ last'.err # "Ok"
          /\ UNCHANGED <<vault, recipient_token_account>>
          /\ ExecutionInputsValid(last'.args) => last'.err = "InvalidSlowFillRequest"

(***************************************************************************)
(* C1: per relay hash at most one execution ever succeeds, so the          *)
(* recipients hold exactly what those single executions disbursed (one     *)
(* vault transfer per relay hash at most); an execution of a relay hash    *)
(* whose record is already Filled fails and moves no funds, and it fails   *)
(* with InvalidSlowFillRequest when the relay hash, accounts and proof are *)
(* valid.                                                                  *)
(***************************************************************************)
C1_AtMostOneExecution == []C1_OneExecutionPerHash /\ [][C1_SecondExecutionFails]_vars

\* an execution was attempted with valid inputs on a record already Filled
C1_Witness ==
    /\ last.op = "execute"
    /\ last.err = "InvalidSlowFillRequest"
    /\ ExecutionInputsValid(last.args)
    /\ fill_status[last.args.relay_hash].status = "Filled"
    /\ ExecutionsOf(last.args.relay_hash) = 1

C2_LegalStep(h) ==
    LET before == fill_status[h]
        after == fill_status'[h]
    IN  /\ before.exists => after.exists
        /\ before.status = "Filled" => after.status = "Filled"
        /\ after.status # before.status =>
              \/ /\ before.status = "Unfilled"
                 /\ after.status = "RequestedSlowFill"
                 /\ Requested /\ last'.err = "Ok" /\ last'.args.relay_hash = h
              \/ /\ before.status = "RequestedSlowFill"
                 /\ after.status = "Filled"
                 /\ Executed /\ last'.err = "Ok" /\ last'.args.relay_hash = h

(***************************************************************************)
(* C2: in every step, the status of every fill record either stays as it   *)
(* is, or goes from Unfilled to RequestedSlowFill in a successful request  *)
(* of that relay hash, or from RequestedSlowFill to Filled in a successful *)
(* execution of that relay hash; a record that exists keeps existing, and  *)
(* a Filled record stays Filled.                                           *)
(***************************************************************************)
C2_StatusOnlyAdvances == [][\A h \in RelayHashes : C2_LegalStep(h)]_vars

\* one record is Filled while the other has been requested and not executed
C2_Witness ==
    \E h1, h2 \in RelayHashes :
        /\ fill_status[h1].status = "Filled"
        /\ fill_status[h2].status = "RequestedSlowFill"

(***************************************************************************)
(* C3: whenever a relay hash has been executed (its record is Filled, a    *)
(* FilledV3Relay record was emitted for it, or funds were disbursed for    *)
(* it), a successful request of the same relay hash was committed before:  *)
(* its RequestedV3SlowFill record is in the log and the record carries the *)
(* requester.  No timestamp enters the statement.                          *)
(***************************************************************************)
C3_ExecutionFollowsRequest ==
    \A h \in RelayHashes :
        (\/ fill_status[h].status = "Filled"
         \/ ExecutionsOf(h) > 0
         \/ DisbursedFor(h) > 0
         \/ (last.op = "execute" /\ last.err = "Ok" /\ last.args.relay_hash = h))
        => /\ RequestsOf(h) = 1
           /\ fill_status[h].exists
           /\ fill_status[h].relayer \in Signers

\* an execution has just succeeded
C3_Witness ==
    /\ last.op = "execute"
    /\ last.err = "Ok"
    /\ RequestsOf(last.args.relay_hash) = 1
    /\ ExecutionsOf(last.args.relay_hash) = 1

(***************************************************************************)
(* C4 as claimed: an execution with a valid relay hash, accounts and proof *)
(* on a record that is Unfilled (never requested included) or Filled fails *)
(* with InvalidSlowFillRequest and changes nothing.                        *)
(***************************************************************************)
C4_AsClaimed ==
    [][(/\ Executed
        /\ ExecutionInputsValid(last'.args)
        /\ fill_status[last'.args.relay_hash].status \in {"Unfilled", "Filled"})
       => /\ last'.err = "InvalidSlowFillRequest"
          /\ UNCHANGED accounts]_vars

(***************************************************************************)
(* C4 amended: an execution with a valid relay hash, accounts and proof    *)
(* fails with InvalidSlowFillRequest on a record that is Filled, and with  *)
(* AccountNotInitialized on a relay hash that was never requested (its     *)
(* record does not exist and execution does not create it); either way     *)
(* status, balances and emitted records are unchanged.                     *)
(***************************************************************************)
C4_ExecutionNeedsRequested ==
    [][(/\ Executed
        /\ ExecutionInputsValid(last'.args)
        /\ fill_status[last'.args.relay_hash].status \in {"Unfilled", "Filled"})
       => /\ fill_status[last'.args.relay_hash].exists
             => (/\ fill_status[last'.args.relay_hash].status = "Filled"
                 /\ last'.err = "InvalidSlowFillRequest")
          /\ ~fill_status[last'.args.relay_hash].exists
             => last'.err = "AccountNotInitialized"
          /\ UNCHANGED accounts]_vars

\* an execution with valid inputs was attempted on a relay hash never requested
C4_Witness ==
    /\ last.op = "execute"
    /\ ExecutionInputsValid(last.args)
    /\ ~fill_status[last.args.relay_hash].exists
    /\ last.err = "AccountNotInitialized"

\* the time a request uses, from the State account and the clock it read
RequestTime(a) == IF state.current_time # 0 THEN state.current_time ELSE a.clock

(***************************************************************************)
(* C5: a request of a relay hash whose record is RequestedSlowFill or      *)
(* Filled fails and leaves the record (status and relayer) as it was; with *)
(* fills not paused, a valid relay hash and the time after both deadlines, *)
(* the error is InvalidSlowFillRequest.                                    *)
(***************************************************************************)
C5_RepeatedRequestFails ==
    [][(/\ Requested
        /\ fill_status[last'.args.relay_hash].status \in {"RequestedSlowFill", "Filled"})
       => /\ last'.err # "Ok"
          /\ fill_status'[last'.args.relay_hash] = fill_status[last'.args.relay_hash]
          /\ (/\ ~state.paused_fills
              /\ is_relay_hash_valid(last'.args.relay_hash, last'.args.relay_data, state)
              /\ last'.args.relay_data.exclusivity_deadline < RequestTime(last'.args)
              /\ last'.args.relay_data.fill_deadline < RequestTime(last'.args))
             => last'.err = "InvalidSlowFillRequest"]_vars

\* a second requester was refused and the first requester is still stamped
C5_Witness ==
    /\ last.op = "request"
    /\ last.err = "InvalidSlowFillRequest"
    /\ fill_status[last.args.relay_hash].status = "RequestedSlowFill"
    /\ fill_status[last.args.relay_hash].relayer # last.args.signer

(***************************************************************************)
(* C6: a request or execution that fails, whatever the error (a failed     *)
(* custody transfer included), changes no account: no fill record is       *)
(* created or changed, no balance moves, no record is emitted; after a     *)
(* failed transfer the record is still RequestedSlowFill.                  *)
(***************************************************************************)
C6_FailureHasNoEffect ==
    [][((Requested \/ Executed) /\ last'.err # "Ok")
       => /\ UNCHANGED accounts
          /\ last'.err = "InsufficientFunds"
             => fill_status'[last'.args.relay_hash].status = "RequestedSlowFill"]_vars

\* the custody transfer of an otherwise valid execution failed
C6_Witness ==
    /\ last.op = "execute"
    /\ last.err = "InsufficientFunds"
    /\ fill_status[last.args.relay_hash].status = "RequestedSlowFill"
    /\ vault[last.args.mint] < last.args.updated_output_amount

(***************************************************************************)
(* C7: a successful execution takes exactly the leaf's                     *)
(* updated_output_amount from the vault of the output token and adds it to *)
(* the recipient's token account, changes no other balance, sets the       *)
(* record to Filled, and emits exactly one record, a FilledV3Relay with    *)
(* fill_type SlowFill, repayment_chain_id 0, updated_recipient the relay   *)
(* data's recipient, updated_message its message and updated_output_amount *)
(* the amount transferred.                                                 *)
(***************************************************************************)
C7_ExecutionEffect ==
    [][(Executed /\ last'.err = "Ok")
       => LET a == last'.args
              rd == a.relay_data
              amt == a.updated_output_amount
              emitted == {e \in BagToSet(events') : CopiesIn(e, events') # CopiesIn(e, events)}
          IN  /\ vault' = [vault EXCEPT ![rd.output_token] = @ - amt]
              /\ vault'[rd.output_token] >= 0
              /\ recipient_token_account' =
                    [recipient_token_account EXCEPT ![<<rd.recipient, rd.output_token>>] = @ + amt]
              /\ fill_status' = [fill_status EXCEPT ![a.relay_hash].status = "Filled"]
              /\ BagCardinality(events') = BagCardinality(events) + 1
              /\ \A e \in BagToSet(events) : CopiesIn(e, events') >= CopiesIn(e, events)
              /\ \A e \in emitted :
                    /\ e.name = "FilledV3Relay"
                    /\ RelayDataOfEvent(e) = rd
                    /\ e.repayment_chain_id = 0
                    /\ e.relay_execution_info.fill_type = "SlowFill"
                    /\ e.relay_execution_info.updated_recipient = rd.recipient
                    /\ e.relay_execution_info.updated_message = rd.message
                    /\ e.relay_execution_info.updated_output_amount = amt
              /\ UNCHANGED <<state, root_bundle>>]_vars

\* an execution succeeded with an updated_output_amount other than output_amount
C7_Witness ==
    /\ last.op = "execute"
    /\ last.err = "Ok"
    /\ last.args.updated_output_amount # last.args.relay_data.output_amount
    /\ recipient_token_account[<<last.args.relay_data.recipient, last.args.mint>>]
          = last.args.updated_output_amount

\* the account checks of an execution pass: the fill record exists, the relay
\* hash is that of the relay data, the recipient and the mint are those of the
\* relay data
ExecutionAccountsValid(a) ==
    /\ fill_status[a.relay_hash].exists
    /\ is_relay_hash_valid(a.relay_hash, a.relay_data, state)
    /\ a.recipient = a.relay_data.recipient
    /\ a.mint = a.relay_data.output_token

\* the proof leads to the root of bundle b from the hash of the caller's leaf
\* with chain id c
ProofValidFor(a, c, b) ==
    verify_merkle_proof(root_bundle[b],
        to_keccak_hash(V3SlowFill(a.relay_data, c, a.updated_output_amount)), a.proof)

(***************************************************************************)
(* C8: for a record that is RequestedSlowFill and a leaf whose chain id    *)
(* is not state.chain_id, an execution succeeds when the proof is valid    *)
(* for the leaf with state.chain_id in place of the supplied chain id      *)
(* (accounts valid, vault funded), and fails with InvalidMerkleProof when  *)
(* the proof is valid only for the leaf as supplied.                       *)
(***************************************************************************)
C8_ChainIdOverridden ==
    [][(/\ Executed
        /\ last'.args.chain_id # state.chain_id
        /\ ExecutionAccountsValid(last'.args)
        /\ fill_status[last'.args.relay_hash].status = "RequestedSlowFill")
       => LET a == last'.args
          IN  /\ (/\ ProofValidFor(a, state.chain_id, a.root_bundle_id)
                  /\ vault[a.mint] >= a.updated_output_amount)
                 => last'.err = "Ok"
              /\ (/\ ProofValidFor(a, a.chain_id, a.root_bundle_id)
                  /\ ~ProofValidFor(a, state.chain_id, a.root_bundle_id))
                 => (last'.err = "InvalidMerkleProof" /\ UNCHANGED accounts)]_vars

\* an execution whose leaf carried a forged chain id succeeded
C8_Witness ==
    /\ last.op = "execute"
    /\ last.err = "Ok"
    /\ last.args.chain_id = ForgedChainId
    /\ ProofValidFor(last.args, state.chain_id, last.args.root_bundle_id)
    /\ ~ProofValidFor(last.args, last.args.chain_id, last.args.root_bundle_id)

\* an execution whose proof was valid only for the forged leaf was refused
C8_WitnessForgedProof ==
    /\ last.op = "execute"
    /\ last.err = "InvalidMerkleProof"
    /\ last.args.chain_id = ForgedChainId
    /\ fill_status[last.args.relay_hash].status = "RequestedSlowFill"
    /\ ProofValidFor(last.args, last.args.chain_id, last.args.root_bundle_id)
    /\ ~ProofValidFor(last.args, state.chain_id, last.args.root_bundle_id)

(***************************************************************************)
(* C9: an execution succeeds only if the proof leads from the hash of the  *)
(* corrected leaf to the slow_relay_root of the bundle with the supplied   *)
(* root_bundle_id; with valid accounts, a proof that is valid for the root *)
(* of another bundle and not for the supplied one fails with               *)
(* InvalidMerkleProof, moves no funds and leaves the record as it was.     *)
(***************************************************************************)
C9_ProofAgainstSuppliedBundle ==
    [][Executed
       => LET a == last'.args
          IN  /\ last'.err = "Ok" => ProofValidFor(a, state.chain_id, a.root_bundle_id)
              /\ (/\ ExecutionAccountsValid(a)
                  /\ ~ProofValidFor(a, state.chain_id, a.root_bundle_id)
                  /\ \E b \in BundleIds \ {a.root_bundle_id} :
                        ProofValidFor(a, state.chain_id, b))
                 => (/\ last'.err = "InvalidMerkleProof"
                     /\ UNCHANGED <<vault, recipient_token_account, events>>
                     /\ fill_status' = fill_status)]_vars

\* a requested relay was executed with a proof valid for another bundle only
C9_Witness ==
    /\ last.op = "execute"
    /\ last.err = "InvalidMerkleProof"
    /\ fill_status[last.args.relay_hash].status = "RequestedSlowFill"
    /\ ~ProofValidFor(last.args, state.chain_id, last.args.root_bundle_id)
    /\ \E b \in BundleIds \ {last.args.root_bundle_id} :
          ProofValidFor(last.args, state.chain_id, b)

(***************************************************************************)
(* C10: a request made at a time that is not after the relay data's        *)
(* exclusivity_deadline (equal included) fails and leaves every fill       *)
(* record as it was, an Unfilled one Unfilled; with a valid relay hash and *)
(* fills not paused the error is NoSlowFillsInExclusivityWindow.  A        *)
(* request succeeds only at a time after the exclusivity_deadline.         *)
(***************************************************************************)
C10_ExclusivityWindow ==
    [][Requested
       => LET a == last'.args
          IN  /\ last'.err = "Ok" => a.relay_data.exclusivity_deadline < RequestTime(a)
              /\ RequestTime(a) <= a.relay_data.exclusivity_deadline
                 => /\ last'.err # "Ok"
                    /\ fill_status' = fill_status
                    /\ (/\ is_relay_hash_valid(a.relay_hash, a.relay_data, state)
                        /\ ~state.paused_fills)
                       => last'.err = "NoSlowFillsInExclusivityWindow"]_vars

\* a request made exactly at the exclusivity deadline was refused
C10_Witness ==
    /\ last.op = "request"
    /\ last.err = "NoSlowFillsInExclusivityWindow"
    /\ RequestTime(last.args) = last.args.relay_data.exclusivity_deadline
    /\ fill_status[last.args.relay_hash].status = "Unfilled"

(***************************************************************************)
(* C11: a request made at a time after the relay data's                    *)
(* exclusivity_deadline and not after its fill_deadline (equal included)   *)
(* fails and leaves every fill record as it was; with a valid relay hash   *)
(* and fills not paused the error is ExpiredFillDeadline.  A request       *)
(* succeeds only at a time after the fill_deadline.                        *)
(***************************************************************************)
C11_FillDeadlineMustHavePassed ==
    [][Requested
       => LET a == last'.args
          IN  /\ last'.err = "Ok" => a.relay_data.fill_deadline < RequestTime(a)
              /\ (/\ a.relay_data.exclusivity_deadline < RequestTime(a)
                  /\ RequestTime(a) <= a.relay_data.fill_deadline)
                 => /\ last'.err # "Ok"
                    /\ fill_status' = fill_status
                    /\ (/\ is_relay_hash_valid(a.relay_hash, a.relay_data, state)
                        /\ ~state.paused_fills)
                       => last'.err = "ExpiredFillDeadline"]_vars

\* a request made exactly at the fill deadline, the exclusivity window lapsed,
\* was refused
C11_Witness ==
    /\ last.op = "request"
    /\ last.err = "ExpiredFillDeadline"
    /\ last.args.relay_data.exclusivity_deadline < RequestTime(last.args)
    /\ RequestTime(last.args) = last.args.relay_data.fill_deadline
    /\ fill_status[last.args.relay_hash].status = "Unfilled"

(***************************************************************************)
(* C12: a successful request finds the record Unfilled (never created      *)
(* included), leaves it RequestedSlowFill with the caller as relayer,      *)
(* emits exactly one record, a RequestedV3SlowFill that carries every      *)
(* field of the relay data as supplied, and changes nothing else: no vault *)
(* or recipient balance, not State, no root bundle, no other fill record.  *)
(***************************************************************************)
C12_RequestEffect ==
    [][(Requested /\ last'.err = "Ok")
       => LET a == last'.args
              rd == a.relay_data
              emitted == {e \in BagToSet(events') : CopiesIn(e, events') # CopiesIn(e, events)}
          IN  /\ fill_status[a.relay_hash].status = "Unfilled"
              /\ fill_status'[a.relay_hash].exists
              /\ fill_status'[a.relay_hash].status = "RequestedSlowFill"
              /\ fill_status'[a.relay_hash].relayer = a.signer
              /\ \A h \in RelayHashes \ {a.relay_hash} : fill_status'[h] = fill_status[h]
              /\ BagCardinality(events') = BagCardinality(events) + 1
              /\ \A e \in BagToSet(events) : CopiesIn(e, events') >= CopiesIn(e, events)
              /\ \A e \in emitted :
                    /\ e.name = "RequestedV3SlowFill"
                    /\ RelayDataOfEvent(e) = rd
                    /\ DOMAIN e = DOMAIN rd \cup {"name"}
              /\ UNCHANGED <<vault, recipient_token_account, state, root_bundle>>]_vars

\* a request succeeded while the other relay hash was already executed and the
\* recipient held funds
C12_Witness ==
    /\ last.op = "request"
    /\ last.err = "Ok"
    /\ fill_status[last.args.relay_hash] =
          [exists |-> TRUE, status |-> "RequestedSlowFill", relayer |-> last.args.signer]
    /\ \E h \in RelayHashes \ {last.args.relay_hash} : fill_status[h].status = "Filled"
    /\ TotalHeldBy(recipient_token_account) > 0
    /\ RequestsOf(last.args.relay_hash) = 1

(***************************************************************************)
(* C13: in every step, the relayer of a fill record that a successful      *)
(* request has stamped (the record is RequestedSlowFill or Filled) stays   *)
(* as it is; a successful execution leaves the relayer of the record it    *)
(* fills as the request stamped it, whoever signs the execution.           *)
(***************************************************************************)
C13_RelayerNeverChanges ==
    [][/\ \A h \in RelayHashes :
             fill_status[h].status # "Unfilled"
                => /\ fill_status[h].relayer \in Signers
                   /\ fill_status'[h].relayer = fill_status[h].relayer
       /\ (Executed /\ last'.err = "Ok")
             => /\ fill_status[last'.args.relay_hash].status = "RequestedSlowFill"
                /\ fill_status'[last'.args.relay_hash].status = "Filled"
                /\ fill_status'[last'.args.relay_hash].relayer
                      = fill_status[last'.args.relay_hash].relayer]_vars

\* an execution signed by another signer than the requester succeeded
C13_Witness ==
    /\ last.op = "execute"
    /\ last.err = "Ok"
    /\ fill_status[last.args.relay_hash].status = "Filled"
    /\ fill_status[last.args.relay_hash].relayer \in Signers \ {last.args.signer}

\* the relay hash supplied with a request or execution is not the hash of the
\* relay data supplied with it
RelayHashMismatch(a) == a.relay_hash # RelayHashOf[a.relay_data, state.chain_id]

\* every fill record that is not Unfilled is stored under the hash of the relay
\* data of exactly one emitted request, every emitted record has its fill
\* record under the hash of its relay data, and no other record exists
KeyBoundToContent ==
    /\ \A h \in RelayHashes :
          /\ fill_status[h].status # "Unfilled" => RequestsOf(h) = 1
          /\ fill_status[h].status = "Filled" => ExecutionsOf(h) = 1
          /\ fill_status[h].exists => fill_status[h].status # "Unfilled"
    /\ \A e \in BagToSet(events) :
          \E h \in RelayHashes :
              /\ EventBelongsTo(e, h)
              /\ fill_status[h].status # "Unfilled"
              /\ e.name = "FilledV3Relay" => fill_status[h].status = "Filled"
    /\ BagCardinality(events) =
          Cardinality({h \in RelayHashes : fill_status[h].status # "Unfilled"})
             + Cardinality({h \in RelayHashes : fill_status[h].status = "Filled"})

(***************************************************************************)
(* C14 as claimed: a request and an execution whose relay hash is not the  *)
(* hash of the relay data supplied both fail with InvalidRelayHash, and    *)
(* every fill record that is not Unfilled is stored under the hash of the  *)
(* relay data it was requested and executed for.                           *)
(***************************************************************************)
C14_AsClaimed ==
    /\ []KeyBoundToContent
    /\ [][((Requested \/ Executed) /\ RelayHashMismatch(last'.args))
            => last'.err = "InvalidRelayHash"]_vars

(***************************************************************************)
(* C14 amended: a request whose relay hash is not the hash of the relay    *)
(* data supplied fails with InvalidRelayHash; an execution with such a     *)
(* relay hash fails with InvalidRelayHash when a fill record exists under  *)
(* the supplied relay hash and with AccountNotInitialized when none does;  *)
(* either way nothing changes, a request or execution succeeds only with   *)
(* the hash of its relay data, and every fill record that is not Unfilled  *)
(* is stored under the hash of the relay data it was requested and         *)
(* executed for.                                                           *)
(***************************************************************************)
C14_KeyIsHashOfContent ==
    /\ []KeyBoundToContent
    /\ [][(Requested \/ Executed)
            => LET a == last'.args
               IN  /\ last'.err = "Ok" => ~RelayHashMismatch(a)
                   /\ RelayHashMismatch(a)
                      => /\ UNCHANGED accounts
                         /\ Requested => last'.err = "InvalidRelayHash"
                         /\ (Executed /\ fill_status[a.relay_hash].exists)
                               => last'.err = "InvalidRelayHash"
                         /\ (Executed /\ ~fill_status[a.relay_hash].exists)
                               => last'.err = "AccountNotInitialized"]_vars

\* an execution was refused for a relay hash that is the key of a requested
\* record and not the hash of the relay data supplied
C14_Witness ==
    /\ last.op = "execute"
    /\ last.err = "InvalidRelayHash"
    /\ RelayHashMismatch(last.args)
    /\ fill_status[last.args.relay_hash].status = "RequestedSlowFill"
    /\ RequestsOf(last.args.relay_hash) = 1

\* a request was refused for a relay hash that is not the hash of its relay data
C14_WitnessRequest ==
    /\ last.op = "request"
    /\ last.err = "InvalidRelayHash"
    /\ RelayHashMismatch(last.args)
    /\ ~fill_status[last.args.relay_hash].exists

\* an execution was refused for a relay hash that is the key of no record and
\* not the hash of the relay data supplied
C14_WitnessNoRecord ==
    /\ last.op = "execute"
    /\ last.err = "AccountNotInitialized"
    /\ RelayHashMismatch(last.args)
    /\ ~fill_status[last.args.relay_hash].exists

(***************************************************************************)
(* C15 as claimed: a request made while state.paused_fills is true fails   *)
(* with FillsArePaused whatever the relay data, the time and the status of *)
(* the record, and leaves every fill record as it was, a record never      *)
(* created not created.                                                    *)
(***************************************************************************)
C15_AsClaimed ==
    [][(Requested /\ state.paused_fills)
       => /\ last'.err = "FillsArePaused"
          /\ fill_status' = fill_status]_vars

(***************************************************************************)
(* C15 amended: a request made while state.paused_fills is true fails      *)
(* whatever the relay data, the time and the status of the record, and     *)
(* leaves every fill record as it was, a record never created not created; *)
(* the error is FillsArePaused when the relay hash is the hash of the      *)
(* relay data supplied, and InvalidRelayHash when it is not.               *)
(***************************************************************************)
C15_PausedRequestFails ==
    [][(Requested /\ state.paused_fills)
       => /\ last'.err # "Ok"
          /\ fill_status' = fill_status
          /\ ~RelayHashMismatch(last'.args) => last'.err = "FillsArePaused"
          /\ RelayHashMismatch(last'.args) => last'.err = "InvalidRelayHash"]_vars

\* a request that every other check would have let through was refused because
\* fills are paused, and its record was not created
C15_Witness ==
    /\ last.op = "request"
    /\ last.err = "FillsArePaused"
    /\ state.paused_fills
    /\ ~RelayHashMismatch(last.args)
    /\ last.args.relay_data.exclusivity_deadline < RequestTime(last.args)
    /\ last.args.relay_data.fill_deadline < RequestTime(last.args)
    /\ ~fill_status[last.args.relay_hash].exists

\* a request made while fills are paused, in the exclusivity window and on a
\* Filled record, was refused because fills are paused
C15_WitnessEveryCheckFailing ==
    /\ last.op = "request"
    /\ last.err = "FillsArePaused"
    /\ state.paused_fills
    /\ RequestTime(last.args) <= last.args.relay_data.exclusivity_deadline
    /\ fill_status[last.args.relay_hash].status = "Filled"

\* a request made while fills are paused with a relay hash that is not the hash
\* of its relay data was refused for the relay hash
C15_WitnessMismatch ==
    /\ last.op = "request"
    /\ last.err = "InvalidRelayHash"
    /\ state.paused_fills
    /\ RelayHashMismatch(last.args)

\* the result the deadline checks of a request must give at time t, the account
\* constraints passed
DeadlineOutcomeAt(rd, t, err) ==
    /\ t <= rd.exclusivity_deadline => err = "NoSlowFillsInExclusivityWindow"
    /\ (rd.exclusivity_deadline < t /\ t <= rd.fill_deadline) => err = "ExpiredFillDeadline"
    /\ (rd.exclusivity_deadline < t /\ rd.fill_deadline < t)
          => err \in {"Ok", "InvalidSlowFillRequest"}

(***************************************************************************)
(* C16: the deadline checks of a request (relay hash valid, fills not      *)
(* paused) give the result for the time state.current_time when that is    *)
(* not zero, and for the time read from the clock when it is zero; with    *)
(* state.current_time not zero, the request ends the same way whatever     *)
(* the clock reads.                                                        *)
(***************************************************************************)
C16_TimeSource ==
    [][Requested
       => LET a == last'.args
          IN  /\ (~RelayHashMismatch(a) /\ ~state.paused_fills)
                 => /\ state.current_time # 0
                       => DeadlineOutcomeAt(a.relay_data, state.current_time, last'.err)
                    /\ state.current_time = 0
                       => DeadlineOutcomeAt(a.relay_data, a.clock, last'.err)
              /\ state.current_time # 0
                 => \A c \in Times \ {0} :
                       /\ RequestError([a EXCEPT !.clock = c]) = last'.err
                       /\ FillStatusAfterRequest([a EXCEPT !.clock = c], last'.err)
                             = fill_status']_vars

\* a request succeeded at an override time after the fill deadline while the
\* clock read a time at which it would have been refused
C16_Witness ==
    /\ last.op = "request"
    /\ last.err = "Ok"
    /\ state.current_time # 0
    /\ last.args.relay_data.fill_deadline < state.current_time
    /\ last.args.clock <= last.args.relay_data.fill_deadline

\* a request was refused at an override time in the exclusivity window while
\* the clock read a time after both deadlines
C16_WitnessRefused ==
    /\ last.op = "request"
    /\ last.err = "NoSlowFillsInExclusivityWindow"
    /\ state.current_time # 0
    /\ state.current_time <= last.args.relay_data.exclusivity_deadline
    /\ last.args.relay_data.exclusivity_deadline < last.args.clock
    /\ last.args.relay_data.fill_deadline < last.args.clock

\* with no override, a request succeeded at the time the clock read
C16_WitnessClock ==
    /\ last.op = "request"
    /\ last.err = "Ok"
    /\ state.current_time = 0
    /\ last.args.relay_data.fill_deadline < last.args.clock

(***************************************************************************)
(* V3SlowFill::to_bytes on its own: two leaves are encoded in one step and *)
(* the byte strings are kept in `last`.  The leaves are a base leaf, the   *)
(* leaves that differ from it in one field (by a value that fits one byte  *)
(* and by one that does not), and the leaves that differ from it in the    *)
(* message, for every message of at most MaxMessageLen bytes.              *)
(***************************************************************************)
BaseLeaf ==
    V3SlowFill([depositor |-> 31, recipient |-> 11, exclusive_relayer |-> 32,
                input_token |-> 23, output_token |-> 21,
                input_amount |-> 2, output_amount |-> 2,
                origin_chain_id |-> 1, deposit_id |-> 1,
                fill_deadline |-> 0, exclusivity_deadline |-> 1,
                message |-> <<>>],
               ChainId, 1)

RelayDataFields ==
    {"depositor", "recipient", "exclusive_relayer", "input_token", "output_token",
     "input_amount", "output_amount", "origin_chain_id", "deposit_id",
     "fill_deadline", "exclusivity_deadline"}

LeavesToEncode ==
    {BaseLeaf}
    \cup {[BaseLeaf EXCEPT !.relay_data[f] = @ + d] : f \in RelayDataFields, d \in {1, 256}}
    \cup {[BaseLeaf EXCEPT !.chain_id = @ + d] : d \in {1, 256}}
    \cup {[BaseLeaf EXCEPT !.updated_output_amount = @ + d] : d \in {1, 256}}
    \cup {[BaseLeaf EXCEPT !.relay_data.message = m] : m \in SeqsUpTo({0, ChainId}, MaxMessageLen)}
    \cup {[BaseLeaf EXCEPT !.relay_data.message = <<ChainId>>, !.chain_id = 0],
          [BaseLeaf EXCEPT !.chain_id = 1, !.updated_output_amount = ChainId]}

EncodeLeaves(l1, l2) ==
    /\ last = NoCall
    /\ last' = [op |-> "to_bytes", err |-> "Ok", args |-> NoArgs,
                leaves |-> <<l1, l2>>, bytes |-> <<to_bytes(l1), to_bytes(l2)>>]
    /\ UNCHANGED accounts

NextEncode ==
    \/ last = NoCall /\ \E l1, l2 \in LeavesToEncode : EncodeLeaves(l1, l2)
    \/ Return

SpecEncode == Init /\ [][NextEncode]_vars

\* the unsigned integer whose little-endian bytes are given
RECURSIVE FromLE(_)
FromLE(bytes) ==
    IF bytes = <<>> THEN 0 ELSE Head(bytes) + 256 * FromLE(Tail(bytes))

\* the leaf read back from a byte string by the fixed layout: five 32-byte
\* keys, four 8-byte and two 4-byte integers, the message, two 8-byte integers
DecodeLeaf(bytes) ==
    LET n == Len(bytes)
        field(offset, width) == FromLE(SubSeq(bytes, offset + 1, offset + width))
    IN  [relay_data |->
            [depositor |-> field(0, 32),
             recipient |-> field(32, 32),
             exclusive_relayer |-> field(64, 32),
             input_token |-> field(96, 32),
             output_token |-> field(128, 32),
             input_amount |-> field(160, 8),
             output_amount |-> field(168, 8),
             origin_chain_id |-> field(176, 8),
             deposit_id |-> field(184, 8),
             fill_deadline |-> field(192, 4),
             exclusivity_deadline |-> field(196, 4),
             message |-> SubSeq(bytes, 201, n - 16)],
         chain_id |-> field(n - 16, 8),
         updated_output_amount |-> field(n - 8, 8)]

(***************************************************************************)
(* C17: the bytes of a leaf are its fields in the order depositor,         *)
(* recipient, exclusive_relayer, input_token, output_token, input_amount,  *)
(* output_amount, origin_chain_id, deposit_id, fill_deadline,              *)
(* exclusivity_deadline, message, chain_id, updated_output_amount, the     *)
(* keys on 32 bytes, the integers little-endian on 8 bytes (4 for the      *)
(* deadlines), the message as it is with no length before it: reading the  *)
(* bytes back by this layout gives the leaf.  Two leaves that differ have  *)
(* different bytes, two equal leaves the same bytes.                       *)
(***************************************************************************)
C17_EncodingInjective ==
    last.op = "to_bytes"
       => /\ \A i \in {1, 2} :
                /\ Len(last.bytes[i]) = 216 + Len(last.leaves[i].relay_data.message)
                /\ \A k \in 1..Len(last.bytes[i]) : last.bytes[i][k] \in 0..255
                /\ DecodeLeaf(last.bytes[i]) = last.leaves[i]
          /\ (last.leaves[1] = last.leaves[2]) <=> (last.bytes[1] = last.bytes[2])

\* two leaves whose messages differ in length were encoded, the shorter message
\* followed by a chain id that is the first byte of the longer message
C17_Witness ==
    /\ last.op = "to_bytes"
    /\ Len(last.leaves[1].relay_data.message) = 0
    /\ Len(last.leaves[2].relay_data.message) = 1
    /\ last.leaves[1].chain_id = last.leaves[2].relay_data.message[1]
    /\ last.bytes[1] # last.bytes[2]

(***************************************************************************)
(* C18: with state.paused_fills true, an execution with a valid relay      *)
(* hash, recipient, mint and proof on a record that is RequestedSlowFill,  *)
(* the vault holding the amount, succeeds: updated_output_amount leaves    *)
(* the vault for the recipient and the record becomes Filled.  The result  *)
(* of an execution never is FillsArePaused.                                *)
(***************************************************************************)
C18_ExecutionNotPaused ==
    [][Executed
       => LET a == last'.args
          IN  /\ last'.err # "FillsArePaused"
              /\ (/\ state.paused_fills
                  /\ ExecutionInputsValid(a)
                  /\ fill_status[a.relay_hash].status = "RequestedSlowFill"
                  /\ vault[a.mint] >= a.updated_output_amount)
                 => /\ last'.err = "Ok"
                    /\ vault'[a.mint] = vault[a.mint] - a.updated_output_amount
                    /\ recipient_token_account'[<<a.recipient, a.mint>>] =
                          recipient_token_account[<<a.recipient, a.mint>>]
                             + a.updated_output_amount
                    /\ fill_status'[a.relay_hash].status = "Filled"]_vars

\* an execution succeeded while fills were paused
C18_Witness ==
    /\ last.op = "execute"
    /\ last.err = "Ok"
    /\ state.paused_fills
    /\ fill_status[last.args.relay_hash].status = "Filled"
    /\ recipient_token_account[<<last.args.recipient, last.args.mint>>]
          >= last.args.updated_output_amount

\* a request was refused while fills were paused, on a state in which an
\* execution is let through
C18_WitnessRequestGated ==
    /\ last.op = "request"
    /\ last.err = "FillsArePaused"
    /\ \E h \in RelayHashes : fill_status[h].status = "Filled"

(***************************************************************************)
(* C19: an execution ends the same way whoever signs it; the FilledV3Relay *)
(* record of a successful execution carries the signer of the execution as *)
(* relayer, and when that signer is not the requester stamped in the fill  *)
(* record, the relayer of the emitted record is not the relayer of the     *)
(* fill record.                                                            *)
(***************************************************************************)
C19_EventRelayerIsExecutor ==
    [][Executed
       => LET a == last'.args
              emitted == {e \in BagToSet(events') : CopiesIn(e, events') # CopiesIn(e, events)}
          IN  /\ \A s \in Signers : ExecuteError([a EXCEPT !.signer = s]) = last'.err
              /\ last'.err = "Ok"
                 => /\ emitted # {}
                    /\ \A e \in emitted :
                          /\ e.name = "FilledV3Relay"
                          /\ e.relayer = a.signer
                          /\ a.signer # fill_status[a.relay_hash].relayer
                                => e.relayer # fill_status'[a.relay_hash].relayer]_vars

\* an execution signed by another signer than the requester succeeded, and its
\* record is in the log with the executor as relayer
C19_Witness ==
    /\ last.op = "execute"
    /\ last.err = "Ok"
    /\ fill_status[last.args.relay_hash].relayer # last.args.signer
    /\ \E e \in BagToSet(events) :
          /\ e.name = "FilledV3Relay"
          /\ EventBelongsTo(e, last.args.relay_hash)
          /\ e.relayer = last.args.signer
          /\ e.relayer # fill_status[last.args.relay_hash].relayer

\* the relay hash, recipient and mint of an execution are those of its relay data
ExecutionKeysValid(a) ==
    /\ ~RelayHashMismatch(a)
    /\ a.recipient = a.relay_data.recipient
    /\ a.mint = a.relay_data.output_token

(***************************************************************************)
(* C20 as claimed: an execution with a valid relay hash, recipient and     *)
(* mint and an invalid proof on a record that is Unfilled (never requested *)
(* included) or Filled fails with InvalidMerkleProof, and an execution     *)
(* fails with InvalidSlowFillRequest only when its relay hash, recipient,  *)
(* mint and proof are valid.                                               *)
(***************************************************************************)
C20_AsClaimed ==
    [][Executed
       => LET a == last'.args
          IN  /\ (/\ ExecutionKeysValid(a)
                  /\ ~ProofValidFor(a, state.chain_id, a.root_bundle_id)
                  /\ fill_status[a.relay_hash].status \in {"Unfilled", "Filled"})
                 => last'.err = "InvalidMerkleProof"
              /\ last'.err = "InvalidSlowFillRequest"
                 => ExecutionKeysValid(a) /\ ProofValidFor(a, state.chain_id, a.root_bundle_id)]_vars

(***************************************************************************)
(* C20 amended: an execution with a valid relay hash, recipient and mint   *)
(* and an invalid proof on a record that is Filled fails with              *)
(* InvalidMerkleProof, not InvalidSlowFillRequest; on a relay hash never   *)
(* requested it fails with AccountNotInitialized, its record not existing, *)
(* before the proof or the status is looked at.  An execution fails with   *)
(* InvalidSlowFillRequest only when its relay hash, recipient, mint and    *)
(* proof are valid and its record exists.                                  *)
(***************************************************************************)
C20_ProofBeforeStatus ==
    [][Executed
       => LET a == last'.args
          IN  /\ (/\ ExecutionKeysValid(a)
                  /\ ~ProofValidFor(a, state.chain_id, a.root_bundle_id)
                  /\ fill_status[a.relay_hash].status \in {"Unfilled", "Filled"})
                 => /\ fill_status[a.relay_hash].exists
                       => (/\ fill_status[a.relay_hash].status = "Filled"
                           /\ last'.err = "InvalidMerkleProof")
                    /\ ~fill_status[a.relay_hash].exists
                       => last'.err = "AccountNotInitialized"
              /\ last'.err = "InvalidSlowFillRequest"
                 => /\ ExecutionKeysValid(a)
                    /\ ProofValidFor(a, state.chain_id, a.root_bundle_id)
                    /\ fill_status[a.relay_hash].exists]_vars

\* an execution with an invalid proof on a Filled record was refused for the
\* proof
C20_Witness ==
    /\ last.op = "execute"
    /\ last.err = "InvalidMerkleProof"
    /\ ExecutionKeysValid(last.args)
    /\ ~ProofValidFor(last.args, state.chain_id, last.args.root_bundle_id)
    /\ fill_status[last.args.relay_hash].status = "Filled"

\* an execution with an invalid proof on a relay hash never requested was
\* refused because its record does not exist
C20_WitnessNoRecord ==
    /\ last.op = "execute"
    /\ last.err = "AccountNotInitialized"
    /\ ExecutionKeysValid(last.args)
    /\ ~ProofValidFor(last.args, state.chain_id, last.args.root_bundle_id)
    /\ ~fill_status[last.args.relay_hash].exists

====
